---- MODULE Spec2Model ----
(***************************************************************************)
(* Model of the Telegram command router (modules/telegram_monitor.py) and  *)
(* of the log-tail formatter (modules/functions/log_monitor.py).           *)
(*                                                                         *)
(* A Python str is a sequence of one-character strings.  Characters that   *)
(* no condition of the code inspects (letters, emoji, digits of a date)    *)
(* are written "x", so every length is the length the code computes with   *)
(* len(); newlines, backticks and the truncation marker are kept as they   *)
(* are.                                                                    *)
(***************************************************************************)
EXTENDS Integers, Sequences, FiniteSets, TLC

VARIABLES
    chat_id,      \* self.chat_id: the configured chat identifier (a str)
    triggers,     \* self.triggers: substring -> handler, in insertion order
    pc,           \* where the handler coroutine in flight is suspended
    upd,          \* the Update being handled
    trace,        \* what the invocation in flight has done so far, in order
    disk,         \* the temporary files that exist
    path,         \* screenshot_path of the invocation in flight
    created,      \* the files the provider of this invocation created
    messages,     \* _handle_logs: the formatted messages
    idx,          \* _handle_logs: index of the message being sent;
                  \* _handle_message: index of the trigger being run
    exc,          \* _handle_logs: the exception e bound by the send loop
    outcome,      \* how the last invocation ended: "returned" or "raised"
    fs,           \* the monitored log directories, as the providers see them
    fmtResults,   \* format_log_results_for_telegram: argument results
    fmtMax,       \* format_log_results_for_telegram: argument max_message_length
    fmtOut,       \* format_log_results_for_telegram: the returned list
    fmtDone,      \* whether the formatter has been applied
    run,          \* start_monitoring / stop_monitoring: where the coroutine is
    signal,       \* the signal delivered to the process, None if none was
    lifecycle,    \* the calls of main and of the run loop so far, with their outcome
    inv,          \* two screenshot invocations in flight at once: their state
    tmpfiles,     \* the temporary files they wrote: path -> invocation captured
    clock,        \* datetime.now() in whole seconds, as the file names use it
    tailLines,    \* get_tails: argument num_lines
    tails         \* get_tails: the returned list, <<>> before the call

vars == <<chat_id, triggers, pc, upd, trace, disk, path, created, messages,
          idx, exc, outcome, fs, fmtResults, fmtMax, fmtOut, fmtDone,
          run, signal, lifecycle, inv, tmpfiles, clock, tailLines, tails>>

routerVars == <<chat_id, triggers, pc, upd, trace, disk, path, created,
                messages, idx, exc, outcome, fs>>

fmtVars == <<fmtResults, fmtMax, fmtOut, fmtDone>>

runVars == <<run, signal, lifecycle>>

shotVars == <<inv, tmpfiles, clock>>

tailVars == <<tailLines, tails>>

(***************************************************************************)
(* Python str and list primitives                                          *)
(***************************************************************************)
None == "None"

Min(a, b) == IF a <= b THEN a ELSE b

Max(a, b) == IF a >= b THEN a ELSE b

Rep(c, n) == [i \in 1..n |-> c]

\* n characters that are neither a newline nor a backtick
Pad(n) == Rep("x", n)

\* s[:n], negative n counting from the end as Python does
SliceTo(s, n) ==
    IF n >= 0 THEN SubSeq(s, 1, Min(n, Len(s)))
    ELSE SubSeq(s, 1, Max(0, Len(s) + n))

\* s[-n:] for n >= 0; s[-0:] is s[0:], the whole sequence
SliceLast(s, n) ==
    IF n = 0 THEN s
    ELSE SubSeq(s, Max(1, Len(s) - n + 1), Len(s))

DigitChar == <<"0", "1", "2", "3", "4", "5", "6", "7", "8", "9">>

RECURSIVE Digits(_)
Digits(n) ==
    IF n < 10 THEN <<DigitChar[n + 1]>>
    ELSE Digits(n \div 10) \o <<DigitChar[(n % 10) + 1]>>

\* str(i) of an int
ToStr(i) == IF i < 0 THEN <<"-">> \o Digits(0 - i) ELSE Digits(i)

\* whether sub occurs in s at position i
OccursAt(sub, s, i) ==
    /\ i + Len(sub) - 1 <= Len(s)
    /\ \A k \in 1..Len(sub) : s[i + k - 1] = sub[k]

\* Python's "sub in s"
Contains(sub, s) == \E i \in 1..(Len(s) + 1) : OccursAt(sub, s, i)

\* the positions at or after i where old occurs in s
Occurrences(sub, s, i) == {j \in i..Len(s) : OccursAt(sub, s, j)}

\* str.replace(old, new): find the next occurrence at or after i, copy what
\* precedes it, put new, go on behind the occurrence
RECURSIVE ReplaceFrom(_, _, _, _)
ReplaceFrom(s, old, new, i) ==
    LET occ == Occurrences(old, s, i) IN
    IF occ = {} THEN SubSeq(s, i, Len(s))
    ELSE LET j == CHOOSE m \in occ : \A k \in occ : m <= k
         IN SubSeq(s, i, j - 1) \o new \o ReplaceFrom(s, old, new, j + Len(old))

Replace(s, old, new) == ReplaceFrom(s, old, new, 1)

\* len(s.splitlines()) where "\n" is the only line boundary in s
CountLines(s) ==
    Cardinality({i \in 1..Len(s) : s[i] = "\n"})
        + (IF Len(s) > 0 /\ s[Len(s)] # "\n" THEN 1 ELSE 0)

\* the backtick character U+0060 and the apostrophe that replaces it
BT == "bt"

Quote == "'"

EndsWith(s, suffix) ==
    /\ Len(suffix) <= Len(s)
    /\ SubSeq(s, Len(s) - Len(suffix) + 1, Len(s)) = suffix

(***************************************************************************)
(* log_monitor.py: the formatter                                           *)
(***************************************************************************)
\* target_dirs: 'centralizador_extract', 'centralizador_transform',
\* 'smsrio', 'vitai'
target_dirs == <<Pad(21), Pad(23), Pad(6), Pad(5)>>

KiB == 1024

\* f"{size_bytes / unit:.1f}": the quotient to one decimal, rounded half to
\* even as the float formatting does on the exactly represented quotient
\* (unit is a power of two).  The arithmetic stays below 2^31.
OneDecimal(size_bytes, unit) ==
    LET uh   == unit \div KiB
        q    == size_bytes \div unit
        r    == size_bytes % unit
        a    == r \div uh
        b    == r % uh
        c    == (b * 10) \div uh
        d    == (b * 10) % uh
        t    == (a * 10 + c) \div KiB
        rem  == ((a * 10 + c) % KiB) * uh + d
        down == q * 10 + t
        half == unit \div 2
        up   == \/ rem > half
                \/ rem = half /\ down % 2 = 1
        T    == IF up THEN down + 1 ELSE down
    IN  Digits(T \div 10) \o <<".">> \o Digits(T % 10)

\* _format_file_size with "<=" in its first comparison
_format_file_size_inclusive(size_bytes) ==
    IF size_bytes <= KiB THEN Digits(size_bytes) \o <<" ", "B">>
    ELSE IF size_bytes < KiB * KiB
         THEN OneDecimal(size_bytes, KiB) \o <<" ", "K", "B">>
    ELSE IF size_bytes < KiB * KiB * KiB
         THEN OneDecimal(size_bytes, KiB * KiB) \o <<" ", "M", "B">>
    ELSE OneDecimal(size_bytes, KiB * KiB * KiB) \o <<" ", "G", "B">>

_format_file_size(size_bytes) ==
    IF size_bytes < KiB THEN Digits(size_bytes) \o <<" ", "B">>
    ELSE IF size_bytes < KiB * KiB
         THEN OneDecimal(size_bytes, KiB) \o <<" ", "K", "B">>
    ELSE IF size_bytes < KiB * KiB * KiB
         THEN OneDecimal(size_bytes, KiB * KiB) \o <<" ", "M", "B">>
    ELSE OneDecimal(size_bytes, KiB * KiB * KiB) \o <<" ", "G", "B">>

\* "\n... (truncado)"
TruncationMarker ==
    <<"\n", ".", ".", ".", " ", "(", "t", "r", "u", "n", "c", "a", "d", "o", ")">>

\* the safety margin subtracted from the space left for the content
SafetyMargin == 20

\* the default of the parameter max_message_length
DefaultMaxMessageLength == 4000

\* the header of a 'success' message: the five lines before the content
SuccessHeader(result) ==
    Pad(2) \o result.directory \o Pad(3) \o result.file_name \o <<"\n", "\n">>
    \o Pad(14) \o result.modified_time \o <<"\n">>
    \o Pad(11) \o _format_file_size(result.file_size) \o <<"\n">>
    \o Pad(20) \o Digits(result.line_count) \o <<"\n", "\n">>
    \o Pad(31) \o <<"\n">>

\* "if len(content) > available_space:
\*      content = content[:available_space] + marker"
Truncate(content, available_space) ==
    IF Len(content) > available_space
    THEN SliceTo(content, available_space) \o TruncationMarker
    ELSE content

\* Sanitize with the triple backticks deleted instead of replaced
SanitizeDropsFences(content) ==
    Replace(Replace(content, <<BT, BT, BT>>, <<>>), <<BT>>, <<Quote>>)

\* content.replace('```', '---').replace('`', "'")
Sanitize(content) ==
    Replace(Replace(content, <<BT, BT, BT>>, <<"-", "-", "-">>), <<BT>>, <<Quote>>)

\* FormatOne with no branch for the status 'error'
FormatOneSkipsErrors(result, max_message_length) ==
    IF result.status = "success"
    THEN LET message         == SuccessHeader(result)
             available_space == max_message_length - Len(message) - SafetyMargin
         IN  <<message \o Sanitize(Truncate(result.content, available_space))>>
    ELSE IF result.status \in {"directory_not_found", "logs_subdir_not_found",
                               "no_logs_found"}
    THEN <<Pad(3) \o result.directory \o <<"\n", "\n">> \o result.content>>
    ELSE <<>>

\* the messages one result appends: one, or none when its status is not
\* one the loop handles
FormatOne(result, max_message_length) ==
    IF result.status = "success"
    THEN LET message         == SuccessHeader(result)
             available_space == max_message_length - Len(message) - SafetyMargin
         IN  <<message \o Sanitize(Truncate(result.content, available_space))>>
    ELSE IF result.status \in {"directory_not_found", "logs_subdir_not_found",
                               "no_logs_found"}
    THEN <<Pad(3) \o result.directory \o <<"\n", "\n">> \o result.content>>
    ELSE IF result.status = "error"
    THEN <<Pad(2) \o result.directory
           \o (IF "file_name" \in DOMAIN result
               THEN Pad(3) \o result.file_name ELSE <<>>)
           \o <<"\n", "\n">> \o result.content>>
    ELSE <<>>

\* the fallback "Nenhum log encontrado nos diretorios monitorados." (52 characters)
NoLogsInDirsMessage == Pad(52)

RECURSIVE FormatAll(_, _)
FormatAll(results, max_message_length) ==
    IF results = <<>> THEN <<>>
    ELSE FormatOne(Head(results), max_message_length)
         \o FormatAll(Tail(results), max_message_length)

\* the formatter without its "if not messages" default
format_without_default(results, max_message_length) ==
    FormatAll(results, max_message_length)

format_log_results_for_telegram(results, max_message_length) ==
    LET msgs == FormatAll(results, max_message_length)
    IN  IF msgs = <<>> THEN <<NoLogsInDirsMessage>> ELSE msgs

(***************************************************************************)
(* log_monitor.py: the log directories and get_tails                       *)
(*                                                                         *)
(* fs[d], for d an index of target_dirs, is a record                       *)
(*   exists   : the directory exists                                       *)
(*   has_logs : its logs/ subdirectory exists                              *)
(*   files    : the *.log files of logs/, in the order glob lists them,    *)
(*              each [name, mtime, data, readable, vanishes]               *)
(* readable = FALSE: open() raises.  vanishes = TRUE: the file is gone by  *)
(* the time get_tails calls stat() on it after reading it.                 *)
(***************************************************************************)
\* str(e) of an exception raised by the filesystem
StrOfOSError == <<"O", "S", "E", "r", "r", "o", "r">>

\* len(str(base_dir)): where the repository is checked out
BaseDirLen == 8

\* str(base_dir / dir_name)
DirPath(d) == Pad(BaseDirLen + 1) \o target_dirs[d]

\* the file-size threshold below which _get_file_tail reads the whole file
SmallFileLimit == 10000

\* the average line length _get_file_tail assumes for a large file
AvgLineLen == 100

\* the positions where a line of s starts
LineStarts(s) ==
    IF s = <<>> THEN {}
    ELSE {1} \cup {i + 1 : i \in {j \in 1..(Len(s) - 1) : s[j] = "\n"}}

\* the text of lines[-n:], lines being the lines of s
LastLines(s, n) ==
    LET starts == LineStarts(s)
        L      == Cardinality(starts)
    IN  IF n = 0 \/ n >= L THEN s
        ELSE LET from == CHOOSE p \in starts :
                             Cardinality({x \in starts : x >= p}) = n
             IN  SubSeq(s, from, Len(s))

\* '\n'.join(s.splitlines()): s without one final newline
JoinedLines(s) ==
    IF s # <<>> /\ s[Len(s)] = "\n" THEN SubSeq(s, 1, Len(s) - 1) ELSE s

_get_file_tail(file, num_lines) ==
    IF ~file.readable
    THEN Pad(21) \o StrOfOSError
    ELSE IF Len(file.data) < SmallFileLimit
    THEN LastLines(file.data, num_lines)
    ELSE LET file_size     == Len(file.data)
             estimated_pos == Max(0, file_size - num_lines * AvgLineLen)
             content       == SubSeq(file.data, estimated_pos + 1, file_size)
         IN  LastLines(JoinedLines(content), num_lines)

\* log_files.sort(key=mtime, reverse=True): a stable sort, newest first
SortNewestFirst(files) ==
    LET n == Len(files)
        rank(i) == Cardinality({j \in 1..n : files[j].mtime > files[i].mtime})
                   + Cardinality({j \in 1..(i - 1) : files[j].mtime = files[i].mtime})
                   + 1
    IN  [k \in 1..n |-> files[CHOOSE i \in 1..n : rank(i) = k]]

\* the 'success' record of a file: its name, size, the tail read from it
\* (the keys no caller reads, file_path and error, are left out)
SuccessRecord(d, file_name, file_size, content) ==
    [directory     |-> target_dirs[d], status |-> "success",
     file_name     |-> file_name,
     file_size     |-> file_size,
     modified_time |-> Pad(19),
     content       |-> content,
     line_count    |-> IF content # <<>> THEN CountLines(content) ELSE 0]

\* the 'error' record of a file on which stat() raised
ErrorRecord(d, file_name) ==
    [directory |-> target_dirs[d], status |-> "error",
     file_name |-> file_name,
     content   |-> Pad(22) \o file_name \o <<":", " ">> \o StrOfOSError]

\* the record of one discovered file
FileRecord(d, file, num_lines) ==
    IF file.vanishes
    THEN ErrorRecord(d, file.name)
    ELSE SuccessRecord(d, file.name, Len(file.data), _get_file_tail(file, num_lines))

\* the records of one monitored directory (the keys path and file_count,
\* which no caller reads, are left out)
DirLevelRecord(d, status) ==
    [directory |-> target_dirs[d], status |-> status,
     content   |-> CASE status = "directory_not_found" -> Pad(28) \o DirPath(d)
                     [] status = "logs_subdir_not_found" -> Pad(37) \o DirPath(d)
                     [] status = "no_logs_found" -> Pad(38) \o DirPath(d) \o Pad(5)]

\* get_tails reporting the discovered files only, a directory without log
\* files giving no record
DirRecordsFilesOnly(dirs, d, num_lines) ==
    IF ~dirs[d].exists \/ ~dirs[d].has_logs \/ dirs[d].files = <<>> THEN <<>>
    ELSE LET log_files == SortNewestFirst(dirs[d].files)
         IN  [k \in 1..Len(log_files) |-> FileRecord(d, log_files[k], num_lines)]

DirRecords(dirs, d, num_lines) ==
    IF ~dirs[d].exists THEN <<DirLevelRecord(d, "directory_not_found")>>
    ELSE IF ~dirs[d].has_logs THEN <<DirLevelRecord(d, "logs_subdir_not_found")>>
    ELSE IF dirs[d].files = <<>> THEN <<DirLevelRecord(d, "no_logs_found")>>
    ELSE LET log_files == SortNewestFirst(dirs[d].files)
         IN  [k \in 1..Len(log_files) |-> FileRecord(d, log_files[k], num_lines)]

RECURSIVE TailsFrom(_, _, _)
TailsFrom(dirs, d, num_lines) ==
    IF d > Len(target_dirs) THEN <<>>
    ELSE DirRecords(dirs, d, num_lines) \o TailsFrom(dirs, d + 1, num_lines)

get_tails(dirs, num_lines) == TailsFrom(dirs, 1, num_lines)

(***************************************************************************)
(* telegram_monitor.py: the router                                         *)
(*                                                                         *)
(* One handler coroutine is followed from the Update it receives to its    *)
(* return.  An action is the code between two suspension points: it takes  *)
(* the result of the awaited call (a send that returned or raised) and     *)
(* runs to the next await.  trace is the ordered record of what the        *)
(* invocation did: sends, provider calls, log entries, sleeps, cleanups.   *)
(***************************************************************************)
Commands == {"ping", "status", "screenshot", "wsl_screenshot", "logs"}

\* update.effective_chat.id of the chats that write to the bot
Chats == {7, -12, 70}

\* the values TELEGRAM_CHAT_ID is configured with
ChatIdConfigs == {<<"7">>, <<"-", "1", "2">>, <<"0", "7">>}

\* update.message.text of the free-text messages
Texts ==
    {<<"a", "b">>, <<" ", "A", "b", " ">>, <<"b">>, <<"c">>, <<"B", "a">>}

\* self.triggers as a caller of the class fills it: the substrings in
\* insertion order (the class registers none itself)
TriggerTables == {<<>>, <<<<"a">>, <<"b">>>>, <<<<"a", "b">>, <<"b">>>>}

\* a command token that no CommandHandler is registered for, and the
\* update.message.text of the messages that start with it
UnknownCommands == {"c"}

UnknownCommandTexts == {<<"/", "c">>, <<"/", "c", " ", "a", "b">>}

\* kind is the command token of a message that starts with a command, and
\* "text" for a message that does not
Updates ==
    [chat : Chats, kind : Commands, text : {<<>>}]
        \cup [chat : Chats, kind : {"text"}, text : Texts]
        \cup [chat : Chats, kind : UnknownCommands, text : UnknownCommandTexts]

NoUpdate == [chat |-> 0, kind |-> "none", text |-> <<>>]

\* str.lower() on the alphabet of Texts
LowerChar(c) == IF c = "A" THEN "a" ELSE IF c = "B" THEN "b" ELSE c

Lower(s) == [i \in 1..Len(s) |-> LowerChar(s[i])]

\* str.strip()
Strip(s) ==
    LET keep == {i \in 1..Len(s) : s[i] # " "}
    IN  IF keep = {} THEN <<>>
        ELSE SubSeq(s, CHOOSE i \in keep : \A k \in keep : i <= k,
                       CHOOSE i \in keep : \A k \in keep : i >= k)

\* ---- events of the trace
SendEv(kind, body, n, e, ok) ==
    [ev |-> "send", what |-> kind, body |-> body, n |-> n, exc |-> e, ok |-> ok]

CallEv(provider) ==
    [ev |-> "call", what |-> provider, body |-> "", n |-> 0, exc |-> "", ok |-> TRUE]

LogEv(level) ==
    [ev |-> "log", what |-> level, body |-> "", n |-> 0, exc |-> "", ok |-> TRUE]

SleepEv ==
    [ev |-> "sleep", what |-> "", body |-> "", n |-> 0, exc |-> "", ok |-> TRUE]

CleanupEv(p) ==
    [ev |-> "cleanup", what |-> p, body |-> "", n |-> 0, exc |-> "", ok |-> TRUE]

\* os.path.exists(screenshot_path) in _handle_wsl_screenshot and its result
ExistsEv(found) ==
    [ev |-> "call", what |-> "os.path.exists", body |-> "", n |-> 0, exc |-> "", ok |-> found]

FireEv(n, ok) ==
    [ev |-> "fire", what |-> "", body |-> "", n |-> n, exc |-> "", ok |-> ok]

\* str(e) of the exception a failed send raises
StrOfSendError == "NetworkError"

\* ping_response returning the text without its emoji
ping_response_plain == "Pong!"

\* ---- providers
ping_response == "Pong! U+1F3D3"

\* get_tails(15): the number of lines /logs asks for
TailLines == 15

\* ---- the log directories an invocation of /logs may find
DirMissing == [exists |-> FALSE, has_logs |-> FALSE, files |-> <<>>]

DirNoLogs == [exists |-> TRUE, has_logs |-> FALSE, files |-> <<>>]

DirEmpty == [exists |-> TRUE, has_logs |-> TRUE, files |-> <<>>]

LogFile(name_len, mtime, data, readable, vanishes) ==
    [name |-> Pad(name_len), mtime |-> mtime, data |-> data,
     readable |-> readable, vanishes |-> vanishes]

DirWith(files) == [exists |-> TRUE, has_logs |-> TRUE, files |-> files]

SampleData == <<"x", "\n", "x", BT, "\n">>

LogFileSystems ==
    { <<DirMissing, DirMissing, DirMissing, DirMissing>>,
      <<DirEmpty, DirEmpty, DirEmpty, DirEmpty>>,
      <<DirMissing, DirNoLogs, DirEmpty, DirEmpty>>,
      <<DirWith(<<LogFile(5, 1, SampleData, TRUE, FALSE)>>),
        DirMissing, DirNoLogs, DirEmpty>>,
      <<DirEmpty, DirWith(<<LogFile(5, 1, SampleData, TRUE, FALSE),
                            LogFile(6, 2, <<>>, FALSE, FALSE)>>),
        DirWith(<<LogFile(4, 3, SampleData, TRUE, TRUE)>>), DirMissing>> }

\* the directories as an invocation that does not read them leaves them
NoLogDirs == <<DirMissing, DirMissing, DirMissing, DirMissing>>

\* ---- the screenshot providers.  A provider returns [ret, files]: the
\* path it returns (or None) and the temporary files it has written.  The
\* names stand for the timestamped names of this invocation.
ShotTmp == "tmp/screenshot.png"

WslTmp == "tmp/wsl_screenshot.png"

WslGuestTmp == "wsl:/tmp/wsl_screenshot.png"

WinCopy == "C:/temp/wsl_screenshot.png"

NoCapture == [ret |-> None, files |-> {}]

\* every backend either saves the file and returns its path or returns None
take_screenshot(captured) ==
    IF captured THEN [ret |-> ShotTmp, files |-> {ShotTmp}] ELSE NoCapture

\* one of the five tools wrote filepath, or none did
_wsl_screenshot_native(captured) ==
    IF captured THEN [ret |-> WslTmp, files |-> {WslTmp}] ELSE NoCapture

\* a command run inside WSL wrote wsl_path (captured), and "wsl cp" copied
\* it to /mnt/c/temp (copied); the returned path is the copy
_wsl_screenshot_from_windows(captured, copied) ==
    IF ~captured THEN NoCapture
    ELSE IF copied THEN [ret |-> WinCopy, files |-> {WslGuestTmp, WinCopy}]
    ELSE [ret |-> None, files |-> {WslGuestTmp}]

wsl_screenshot(in_wsl, captured, copied) ==
    IF in_wsl THEN _wsl_screenshot_native(captured)
    ELSE _wsl_screenshot_from_windows(captured, copied)

\* capture_zellij_sessions returns a dict with any of these keys
ZellijInfos == SUBSET {"sessions", "layout"}

\* "if filepath and os.path.exists(filepath): os.remove(filepath)"; the
\* removal of an existing temporary file is taken to succeed
cleanup_screenshot(d, filepath) ==
    IF filepath # None /\ filepath \in d THEN d \ {filepath} ELSE d

cleanup_wsl_screenshot(d, filepath) ==
    IF filepath # None /\ filepath \in d THEN d \ {filepath} ELSE d

\* ---- the external processes the screenshot providers start
\* the backend take_screenshot() selects from _is_running_in_wsl() and
\* platform.system()
ScreenshotBackends == {"wsl_powershell", "windows", "linux", "darwin"}

\* the backend wsl_screenshot() selects from _is_running_in_wsl()
WslBackend(in_wsl) == IF in_wsl THEN "wsl_native" ELSE "wsl_from_windows"

\* the subprocess.run calls of a backend, in the order of the code, and
\* whether the call passes timeout=
ExternalCalls(backend) ==
    CASE backend = "wsl_powershell" ->
            <<[tool |-> "wslpath", timeout |-> FALSE],
              [tool |-> "powershell.exe", timeout |-> TRUE]>>
      [] backend = "darwin" ->
            <<[tool |-> "screencapture", timeout |-> FALSE]>>
      [] backend \in {"windows", "linux"} -> <<>>
      [] backend = "wsl_native" ->
            <<[tool |-> "scrot", timeout |-> TRUE],
              [tool |-> "gnome-screenshot", timeout |-> TRUE],
              [tool |-> "import", timeout |-> TRUE],
              [tool |-> "xwd", timeout |-> TRUE],
              [tool |-> "convert", timeout |-> TRUE],
              [tool |-> "grim", timeout |-> TRUE]>>
      [] backend = "wsl_from_windows" ->
            <<[tool |-> "wsl bash", timeout |-> TRUE],
              [tool |-> "wsl cp", timeout |-> FALSE]>>

\* the external tool that never returns while an invocation runs, if any
StalledTools ==
    {None, "wslpath", "powershell.exe", "screencapture", "scrot", "grim",
     "wsl bash", "wsl cp"}

\* subprocess.run(tool) without timeout= never returns when the tool never
\* does; with timeout= it raises TimeoutExpired, which the backend catches
NeverReturns(backend, stalled) ==
    \E i \in 1..Len(ExternalCalls(backend)) :
        /\ ExternalCalls(backend)[i].tool = stalled
        /\ ~ExternalCalls(backend)[i].timeout

\* the coroutine never leaves the call it is in
Blocked(tr) == [pc |-> "blocked", trace |-> tr, outcome |-> "none"]

\* ---- the idle values of the variables of the other specifications
\* the handler invocations that may be in flight together
Invocations == {1, 2}

\* the seconds datetime.now() takes while they run
MaxClock == 2

ShotCommands == {"screenshot", "wsl_screenshot"}

\* os.path.join(temp_dir, f"screenshot_{timestamp}.png") and
\* f"wsl_screenshot_{timestamp}.png", timestamp = strftime("%Y%m%d_%H%M%S")
TmpPath(kind, second) == <<kind, second>>

TmpPaths == {TmpPath(k, t) : k \in ShotCommands, t \in 0..MaxClock}

\* no screenshot invocation in flight
NoInvocations == [i \in Invocations |-> [pc |-> "idle", kind |-> None, path |-> None]]

\* no temporary file on disk (0: absent, i: last written by invocation i)
NoTmpFiles == [p \in TmpPaths |-> 0]

\* the chat check written as a containment test, "str(id) in self.chat_id"
AuthorizedSubstring(u) == Contains(ToStr(u.chat), chat_id)

\* ---- the try/except structure
\* "str(update.effective_chat.id) == self.chat_id"
Authorized(u) == ToStr(u.chat) = chat_id

\* the apology sends without their "try: ... except: pass"
CatcherNoPass(site) ==
    CASE site = "ping_reply"     -> "ping_except"
      [] site = "status_reply"   -> "status_except"
      [] site \in {"shot_ack", "shot_photo", "shot_fail"} -> "shot_except"
      [] site \in {"wsl_ack", "wsl_senderr", "wsl_zellij", "wsl_fail"} -> "wsl_except"
      [] site \in {"wsl_photo", "wsl_notfound"} -> "wsl_inner_except"
      [] site \in {"logs_ack", "logs_summary", "logs_none", "logs_critical"} -> "logs_except"
      [] site = "logs_send"      -> "logs_loop_except"
      [] site = "logs_fallback"  -> "logs_loop_inner_except"
      [] site = "msg_trigger"    -> "msg_except"
      [] OTHER                   -> "uncaught"

\* the failure text of /screenshot sent under a "try: ... except: pass" of
\* its own
CatcherShotFailPass(site) ==
    CASE site = "ping_reply"     -> "ping_except"
      [] site = "status_reply"   -> "status_except"
      [] site \in {"shot_ack", "shot_photo"} -> "shot_except"
      [] site \in {"wsl_ack", "wsl_senderr", "wsl_zellij", "wsl_fail"} -> "wsl_except"
      [] site \in {"wsl_photo", "wsl_notfound"} -> "wsl_inner_except"
      [] site \in {"logs_ack", "logs_summary", "logs_none", "logs_critical"} -> "logs_except"
      [] site = "logs_send"      -> "logs_loop_except"
      [] site = "logs_fallback"  -> "logs_loop_inner_except"
      [] site = "msg_trigger"    -> "msg_except"
      [] site \in {"shot_fail", "status_apology", "shot_apology", "wsl_apology",
                   "logs_apology"} -> "pass"
      [] OTHER                   -> "uncaught"

\* the except clause that receives an exception raised at a suspension
\* point ("pass": the bare "except: pass" around an apology send)
Catcher(site) ==
    CASE site = "ping_reply"     -> "ping_except"
      [] site = "status_reply"   -> "status_except"
      [] site = "shot_ack"       -> "shot_except"
      [] site = "shot_photo"     -> "shot_except"
      [] site = "shot_fail"      -> "shot_except"
      [] site = "wsl_ack"        -> "wsl_except"
      [] site = "wsl_photo"      -> "wsl_inner_except"
      [] site = "wsl_notfound"   -> "wsl_inner_except"
      [] site = "wsl_senderr"    -> "wsl_except"
      [] site = "wsl_zellij"     -> "wsl_except"
      [] site = "wsl_fail"       -> "wsl_except"
      [] site = "logs_ack"       -> "logs_except"
      [] site = "logs_summary"   -> "logs_except"
      [] site = "logs_none"      -> "logs_except"
      [] site = "logs_send"      -> "logs_loop_except"
      [] site = "logs_fallback"  -> "logs_loop_inner_except"
      [] site = "logs_critical"  -> "logs_except"
      [] site = "msg_trigger"    -> "msg_except"
      [] site \in {"status_apology", "shot_apology", "wsl_apology",
                   "logs_apology"} -> "pass"
      [] OTHER                   -> "uncaught"

\* a handler that reaches its end
Returned(tr) == [pc |-> "done", trace |-> tr, outcome |-> "returned"]

\* a handler that suspends at the await of site l
Await(l, tr) == [pc |-> l, trace |-> tr, outcome |-> "none"]

\* what the except clause c does up to the next suspension point
Caught(c, tr) ==
    CASE c = "pass" -> Returned(tr)
      [] c \in {"ping_except", "msg_except"} ->
            Returned(Append(tr, LogEv("error")))
      [] c = "status_except" -> Await("status_apology", Append(tr, LogEv("error")))
      [] c = "shot_except" -> Await("shot_apology", Append(tr, LogEv("error")))
      [] c = "wsl_except" -> Await("wsl_apology", Append(tr, LogEv("error")))
      [] c = "logs_except" -> Await("logs_apology", Append(tr, LogEv("error")))
      [] c = "wsl_inner_except" -> Await("wsl_senderr", Append(tr, LogEv("error")))
      [] c = "logs_loop_except" -> Await("logs_fallback", tr)
      [] c = "logs_loop_inner_except" -> Await("logs_critical", tr)
      [] OTHER -> [pc |-> "done", trace |-> tr, outcome |-> "raised"]

\* an exception raised at the site the coroutine is suspended at
Raised(tr) == Caught(Catcher(pc), tr)

\* the continuation k becomes the state of the coroutine
Continue(k) ==
    /\ pc' = k.pc
    /\ trace' = k.trace
    /\ outcome' = k.outcome

\* the branch every command handler takes for another chat
Unauthorized == Returned(Append(trace, LogEv("warning")))

(***************************************************************************)
(* The transport hands an Update to the handler registered for it.         *)
(***************************************************************************)
\* the handlers in the order _register_default_triggers adds them: five
\* CommandHandlers and the MessageHandler for filters.TEXT & ~filters.COMMAND
RegisteredHandlers ==
    <<[filter |-> "command", command |-> "ping", callback |-> "ping"],
      [filter |-> "command", command |-> "status", callback |-> "status"],
      [filter |-> "command", command |-> "screenshot", callback |-> "screenshot"],
      [filter |-> "command", command |-> "wsl_screenshot", callback |-> "wsl_screenshot"],
      [filter |-> "command", command |-> "logs", callback |-> "logs"],
      [filter |-> "text_not_command", command |-> "", callback |-> "text"]>>

\* the message starts with a command token
IsCommand(u) == u.kind # "text"

\* the MessageHandler registered with filters.TEXT alone
HandlerMatchesAnyText(h, u) ==
    IF h.filter = "command" THEN u.kind = h.command ELSE TRUE

\* whether the filter of handler h accepts update u
HandlerMatches(h, u) ==
    IF h.filter = "command" THEN u.kind = h.command ELSE ~IsCommand(u)

\* the callback of the first registered handler that accepts u, or "done"
\* when none does and the update is dropped
Dispatch(u) ==
    LET m == {i \in 1..Len(RegisteredHandlers) : HandlerMatches(RegisteredHandlers[i], u)}
    IN  IF m = {} THEN "done"
        ELSE RegisteredHandlers[CHOOSE i \in m : \A j \in m : i <= j].callback

Receive ==
    /\ pc \in {"idle", "done"}
    /\ \E u \in Updates :
        /\ upd' = u
        /\ pc' = Dispatch(u)
        /\ fs' \in (IF u.kind = "logs" THEN LogFileSystems ELSE {NoLogDirs})
    /\ trace' = <<>>
    /\ outcome' = "none"
    /\ path' = None
    /\ created' = {}
    /\ disk' = {}
    /\ messages' = <<>>
    /\ idx' = 0
    /\ exc' = ""
    /\ UNCHANGED <<chat_id, triggers, fmtVars, runVars, shotVars, tailVars>>

(***************************************************************************)
(* _handle_ping                                                            *)
(***************************************************************************)
PingStart ==
    /\ pc = "ping"
    /\ Continue(IF Authorized(upd)
                THEN Await("ping_reply", Append(trace, CallEv("ping_response")))
                ELSE Unauthorized)
    /\ UNCHANGED <<chat_id, triggers, upd, disk, path, created, messages, idx,
                   exc, fs, fmtVars, runVars, shotVars, tailVars>>

PingReply ==
    /\ pc = "ping_reply"
    /\ \E ok \in BOOLEAN :
        LET tr == Append(trace, SendEv("text", ping_response, 0, "", ok))
        IN  Continue(IF ok THEN Returned(Append(tr, LogEv("info")))
                     ELSE Raised(tr))
    /\ UNCHANGED <<chat_id, triggers, upd, disk, path, created, messages, idx,
                   exc, fs, fmtVars, runVars, shotVars, tailVars>>

(***************************************************************************)
(* _handle_status                                                          *)
(***************************************************************************)
StatusStart ==
    /\ pc = "status"
    /\ Continue(IF Authorized(upd)
                THEN Await("status_reply",
                           trace \o <<LogEv("info"), CallEv("system_status")>>)
                ELSE Unauthorized)
    /\ UNCHANGED <<chat_id, triggers, upd, disk, path, created, messages, idx,
                   exc, fs, fmtVars, runVars, shotVars, tailVars>>

StatusReply ==
    /\ pc = "status_reply"
    /\ \E ok \in BOOLEAN :
        LET tr == Append(trace, SendEv("text", "status_report", 0, "", ok))
        IN  Continue(IF ok THEN Returned(Append(tr, LogEv("info")))
                     ELSE Raised(tr))
    /\ UNCHANGED <<chat_id, triggers, upd, disk, path, created, messages, idx,
                   exc, fs, fmtVars, runVars, shotVars, tailVars>>

(***************************************************************************)
(* The apology send in the except clause of _handle_status,                *)
(* _handle_screenshot, _handle_wsl_screenshot and _handle_logs             *)
(***************************************************************************)
ApologyText(site) ==
    CASE site = "status_apology" -> "Erro ao obter status do sistema. Tente novamente."
      [] site = "shot_apology"   -> "Erro ao capturar screenshot. Tente novamente."
      [] site = "wsl_apology"    -> "Erro ao capturar screenshot WSL. Tente novamente."
      [] site = "logs_apology"   -> "Erro ao buscar logs. Tente novamente."

Apology ==
    /\ pc \in {"status_apology", "shot_apology", "wsl_apology", "logs_apology"}
    /\ \E ok \in BOOLEAN :
        LET tr == Append(trace, SendEv("text", ApologyText(pc), 0, "", ok))
        IN  Continue(IF ok THEN Returned(tr) ELSE Raised(tr))
    /\ UNCHANGED <<chat_id, triggers, upd, disk, path, created, messages, idx,
                   exc, fs, fmtVars, runVars, shotVars, tailVars>>

(***************************************************************************)
(* _handle_screenshot                                                      *)
(***************************************************************************)
ShotStart ==
    /\ pc = "screenshot"
    /\ Continue(IF Authorized(upd)
                THEN Await("shot_ack", Append(trace, LogEv("info")))
                ELSE Unauthorized)
    /\ UNCHANGED <<chat_id, triggers, upd, disk, path, created, messages, idx,
                   exc, fs, fmtVars, runVars, shotVars, tailVars>>

\* ShotAck with take_screenshot() called before the acknowledgement is sent
ShotAckProviderFirst ==
    /\ pc = "shot_ack"
    /\ \E ok \in BOOLEAN, captured \in BOOLEAN, opened \in BOOLEAN :
        LET tr0 == Append(trace, SendEv("text", "Capturando screenshot...", 0, "", ok))
            r   == take_screenshot(captured)
            tr1 == Append(tr0, CallEv("take_screenshot"))
        IN  IF ~ok
            THEN /\ Continue(Raised(tr1))
                 /\ UNCHANGED <<disk, path, created>>
            ELSE /\ path' = r.ret
                 /\ created' = r.files
                 /\ IF r.ret = None
                    THEN /\ disk' = disk \cup r.files
                         /\ Continue(Await("shot_fail", tr1))
                    ELSE IF opened
                    THEN /\ disk' = disk \cup r.files
                         /\ Continue(Await("shot_photo", tr1))
                    ELSE \* open() raises: the finally clause, then the except
                         /\ disk' = cleanup_screenshot(disk \cup r.files, r.ret)
                         /\ Continue(Raised(Append(tr1, CleanupEv(r.ret))))
    /\ UNCHANGED <<chat_id, triggers, upd, messages, idx, exc, fs, fmtVars, runVars, shotVars, tailVars>>

\* the acknowledgement has been awaited; take_screenshot() runs; with a path
\* the file is opened and reply_photo awaited, without one the failure text
ShotAck ==
    /\ pc = "shot_ack"
    /\ \E ok \in BOOLEAN, captured \in BOOLEAN, opened \in BOOLEAN,
          backend \in ScreenshotBackends, stalled \in StalledTools :
        LET tr0 == Append(trace, SendEv("text", "Capturando screenshot...", 0, "", ok))
            r   == take_screenshot(captured)
            tr1 == Append(tr0, CallEv("take_screenshot"))
        IN  IF ~ok
            THEN /\ Continue(Raised(tr0))
                 /\ UNCHANGED <<disk, path, created>>
            ELSE IF NeverReturns(backend, stalled)
            THEN /\ Continue(Blocked(tr1))
                 /\ UNCHANGED <<disk, path, created>>
            ELSE /\ path' = r.ret
                 /\ created' = r.files
                 /\ IF r.ret = None
                    THEN /\ disk' = disk \cup r.files
                         /\ Continue(Await("shot_fail", tr1))
                    ELSE IF opened
                    THEN /\ disk' = disk \cup r.files
                         /\ Continue(Await("shot_photo", tr1))
                    ELSE \* open() raises: the finally clause, then the except
                         /\ disk' = cleanup_screenshot(disk \cup r.files, r.ret)
                         /\ Continue(Raised(Append(tr1, CleanupEv(r.ret))))
    /\ UNCHANGED <<chat_id, triggers, upd, messages, idx, exc, fs, fmtVars, runVars, shotVars, tailVars>>

\* ShotPhoto with the temporary file removed before the image is sent
ShotPhotoCleanupFirst ==
    /\ pc = "shot_photo"
    /\ \E ok \in BOOLEAN :
        LET tr0 == Append(Append(trace, CleanupEv(path)),
                          SendEv("photo", "Screenshot capturada!", 0, "", ok))
        IN  Continue(IF ok
                     THEN Returned(Append(tr0, LogEv("info")))
                     ELSE Raised(tr0))
    /\ disk' = cleanup_screenshot(disk, path)
    /\ UNCHANGED <<chat_id, triggers, upd, path, created, messages, idx, exc,
                   fs, fmtVars, runVars, shotVars, tailVars>>

ShotPhoto ==
    /\ pc = "shot_photo"
    /\ \E ok \in BOOLEAN :
        LET tr0 == Append(trace, SendEv("photo", "Screenshot capturada!", 0, "", ok))
        IN  Continue(IF ok
                     THEN Returned(tr0 \o <<LogEv("info"), CleanupEv(path)>>)
                     ELSE Raised(Append(tr0, CleanupEv(path))))
    /\ disk' = cleanup_screenshot(disk, path)
    /\ UNCHANGED <<chat_id, triggers, upd, path, created, messages, idx, exc,
                   fs, fmtVars, runVars, shotVars, tailVars>>

ShotFail ==
    /\ pc = "shot_fail"
    /\ \E ok \in BOOLEAN :
        LET tr == Append(trace,
                    SendEv("text", "Erro ao capturar screenshot. Verifique as dependencias.",
                           0, "", ok))
        IN  Continue(IF ok THEN Returned(Append(tr, LogEv("error")))
                     ELSE Raised(tr))
    /\ UNCHANGED <<chat_id, triggers, upd, disk, path, created, messages, idx,
                   exc, fs, fmtVars, runVars, shotVars, tailVars>>

(***************************************************************************)
(* _handle_wsl_screenshot                                                  *)
(***************************************************************************)
WslStart ==
    /\ pc = "wsl_screenshot"
    /\ Continue(IF Authorized(upd)
                THEN Await("wsl_ack", Append(trace, LogEv("info")))
                ELSE Unauthorized)
    /\ UNCHANGED <<chat_id, triggers, upd, disk, path, created, messages, idx,
                   exc, fs, fmtVars, runVars, shotVars, tailVars>>

\* the text sent when wsl_screenshot() returned no path
WslFailureBody(site) ==
    IF site = "wsl_zellij" THEN "Screenshot WSL falhou, mas capturei info do Zellij"
    ELSE "Falha ao capturar screenshot WSL. Verifique"

\* the acknowledgement has been awaited; wsl_screenshot() runs; the file
\* it returned may be gone when the handler looks for it (vanished)
WslAck ==
    /\ pc = "wsl_ack"
    /\ \E ok \in BOOLEAN, in_wsl \in BOOLEAN, captured \in BOOLEAN,
          copied \in BOOLEAN, opened \in BOOLEAN, zellij_info \in ZellijInfos,
          stalled \in StalledTools, vanished \in BOOLEAN :
        LET tr0 == Append(trace,
                     SendEv("text", "Capturando screenshot via WSL...", 0, "", ok))
            r   == wsl_screenshot(in_wsl, captured, copied)
            tr1 == Append(tr0, CallEv("wsl_screenshot"))
            d   == (disk \cup r.files) \ (IF vanished THEN {r.ret} ELSE {})
            tr2 == Append(tr1, ExistsEv(r.ret \in d))
        IN  IF ~ok
            THEN /\ Continue(Raised(tr0))
                 /\ UNCHANGED <<disk, path, created>>
            ELSE IF captured /\ NeverReturns(WslBackend(in_wsl), stalled)
            THEN \* the capture wrote its file and the copy never returns
                 /\ Continue(Blocked(tr1))
                 /\ created' = {WslGuestTmp}
                 /\ disk' = disk \cup {WslGuestTmp}
                 /\ path' = path
            ELSE /\ path' = r.ret
                 /\ created' = r.files
                 /\ disk' = d
                 /\ Continue(
                      IF r.ret # None
                      THEN IF r.ret \notin d THEN Await("wsl_notfound", tr2)
                           ELSE IF opened THEN Await("wsl_photo", tr2)
                           ELSE Caught("wsl_inner_except", tr2)
                      ELSE Await(IF zellij_info # {} THEN "wsl_zellij"
                                 ELSE "wsl_fail",
                                 Append(tr1, CallEv("capture_zellij_sessions"))))
    /\ UNCHANGED <<chat_id, triggers, upd, messages, idx, exc, fs, fmtVars, runVars, shotVars, tailVars>>

\* the send inside the inner try: the photo, or the text saying that the
\* file is not there
WslInnerSend ==
    /\ pc \in {"wsl_photo", "wsl_notfound"}
    /\ \E ok \in BOOLEAN :
        LET tr0 == Append(trace,
                     IF pc = "wsl_photo"
                     THEN SendEv("photo", "Screenshot WSL capturada!", 0, "", ok)
                     ELSE SendEv("text", "Arquivo de screenshot nao encontrado.", 0, "", ok))
            tr1 == IF pc = "wsl_photo" THEN Append(tr0, LogEv("info")) ELSE tr0
        IN  IF ok
            THEN /\ Continue(Returned(Append(tr1, CleanupEv(path))))
                 /\ disk' = cleanup_wsl_screenshot(disk, path)
            ELSE /\ Continue(Raised(tr0))
                 /\ disk' = disk
    /\ UNCHANGED <<chat_id, triggers, upd, path, created, messages, idx, exc,
                   fs, fmtVars, runVars, shotVars, tailVars>>

\* WslSendErr with no finally clause after the inner except clause
WslSendErrNoCleanup ==
    /\ pc = "wsl_senderr"
    /\ \E ok \in BOOLEAN :
        LET tr == Append(trace, SendEv("text", "Erro ao enviar screenshot.", 0, "", ok))
        IN  Continue(IF ok THEN Returned(tr) ELSE Raised(tr))
    /\ disk' = disk
    /\ UNCHANGED <<chat_id, triggers, upd, path, created, messages, idx, exc,
                   fs, fmtVars, runVars, shotVars, tailVars>>

\* the send inside the inner except clause; the finally clause follows it
WslSendErr ==
    /\ pc = "wsl_senderr"
    /\ \E ok \in BOOLEAN :
        LET tr == Append(trace, SendEv("text", "Erro ao enviar screenshot.", 0, "", ok))
                  \o <<CleanupEv(path)>>
        IN  Continue(IF ok THEN Returned(tr) ELSE Raised(tr))
    /\ disk' = cleanup_wsl_screenshot(disk, path)
    /\ UNCHANGED <<chat_id, triggers, upd, path, created, messages, idx, exc,
                   fs, fmtVars, runVars, shotVars, tailVars>>

\* WslFailureReply sending its text a second time after a send that succeeded
WslFailureReplyTwice ==
    /\ pc \in {"wsl_zellij", "wsl_fail"}
    /\ \E ok \in BOOLEAN :
        LET tr == Append(trace, SendEv("text", WslFailureBody(pc), 0, "", ok))
        IN  Continue(IF ok
                     THEN Returned(tr \o <<SendEv("text", WslFailureBody(pc), 0, "", TRUE),
                                           LogEv("error")>>)
                     ELSE Raised(tr))
    /\ UNCHANGED <<chat_id, triggers, upd, disk, path, created, messages, idx,
                   exc, fs, fmtVars, runVars, shotVars, tailVars>>

\* the send of the Zellij fallback or of the likely-causes text
WslFailureReply ==
    /\ pc \in {"wsl_zellij", "wsl_fail"}
    /\ \E ok \in BOOLEAN :
        LET tr == Append(trace, SendEv("text", WslFailureBody(pc), 0, "", ok))
        IN  Continue(IF ok THEN Returned(Append(tr, LogEv("error")))
                     ELSE Raised(tr))
    /\ UNCHANGED <<chat_id, triggers, upd, disk, path, created, messages, idx,
                   exc, fs, fmtVars, runVars, shotVars, tailVars>>

(***************************************************************************)
(* _handle_logs                                                            *)
(***************************************************************************)
LogsStart ==
    /\ pc = "logs"
    /\ Continue(IF Authorized(upd)
                THEN Await("logs_ack", Append(trace, LogEv("info")))
                ELSE Unauthorized)
    /\ UNCHANGED <<chat_id, triggers, upd, disk, path, created, messages, idx,
                   exc, fs, fmtVars, runVars, shotVars, tailVars>>

\* LogsAck requesting the tails before the summary is sent
LogsAckTailsFirst ==
    /\ pc = "logs_ack"
    /\ \E ok \in BOOLEAN :
        LET tr == Append(trace, SendEv("text", "Buscando logs dos diretorios...", 0, "", ok))
        IN  Continue(IF ok
                     THEN Await("logs_summary",
                                tr \o <<CallEv("get_tails"), CallEv("get_logs_summary")>>)
                     ELSE Raised(tr))
    /\ UNCHANGED <<chat_id, triggers, upd, disk, path, created, messages, idx,
                   exc, fs, fmtVars, runVars, shotVars, tailVars>>

\* the acknowledgement has been awaited; get_logs_summary() runs
LogsAck ==
    /\ pc = "logs_ack"
    /\ \E ok \in BOOLEAN :
        LET tr == Append(trace, SendEv("text", "Buscando logs dos diretorios...", 0, "", ok))
        IN  Continue(IF ok
                     THEN Await("logs_summary", Append(tr, CallEv("get_logs_summary")))
                     ELSE Raised(tr))
    /\ UNCHANGED <<chat_id, triggers, upd, disk, path, created, messages, idx,
                   exc, fs, fmtVars, runVars, shotVars, tailVars>>

\* the for loop goes to its next message, or ends
NextLogMessage(tr, i, msgs) ==
    IF i > Len(msgs) THEN Returned(Append(tr, LogEv("info")))
    ELSE Await("logs_send", tr)

\* what _handle_logs does with the list get_tails returned: "if not logs"
\* it sends the fixed text and returns, otherwise it formats the list with
\* the default ceiling and sends the messages
LogsPlan(logs) ==
    IF logs = <<>>
    THEN [none_found |-> TRUE, messages |-> <<>>]
    ELSE [none_found |-> FALSE,
          messages |-> format_log_results_for_telegram(logs, DefaultMaxMessageLength)]

\* the summary has been awaited; get_tails(15) runs and its records are
\* formatted
LogsSummary ==
    /\ pc = "logs_summary"
    /\ \E ok \in BOOLEAN :
        LET tr0  == Append(trace, SendEv("text", "summary", 0, "", ok))
            tr1  == Append(tr0, CallEv("get_tails"))
            plan == LogsPlan(get_tails(fs, TailLines))
        IN  IF ~ok
            THEN /\ Continue(Raised(tr0))
                 /\ UNCHANGED <<messages, idx>>
            ELSE IF plan.none_found
            THEN /\ Continue(Await("logs_none", tr1))
                 /\ UNCHANGED <<messages, idx>>
            ELSE /\ messages' = plan.messages
                 /\ idx' = 1
                 /\ Continue(NextLogMessage(tr1, 1, plan.messages))
    /\ UNCHANGED <<chat_id, triggers, upd, disk, path, created, exc, fs, fmtVars, runVars, shotVars, tailVars>>

\* the send of "Nenhum log encontrado." after an empty get_tails, or of
\* message idx of the loop
LogsSend ==
    /\ pc \in {"logs_none", "logs_send"}
    /\ \E ok \in BOOLEAN :
        IF pc = "logs_none"
        THEN LET tr == Append(trace, SendEv("text", "Nenhum log encontrado.", 0, "", ok))
             IN  /\ Continue(IF ok THEN Returned(tr) ELSE Raised(tr))
                 /\ exc' = exc
        ELSE LET tr == Append(trace, SendEv("text", "log_message", idx, "", ok))
             IN  /\ Continue(IF ok THEN Await("logs_sleep", tr) ELSE Raised(tr))
                 /\ exc' = IF ok THEN exc ELSE StrOfSendError
    /\ UNCHANGED <<chat_id, triggers, upd, disk, path, created, messages, idx,
                   fs, fmtVars, runVars, shotVars, tailVars>>

\* asyncio.sleep(0.5) after a send that succeeded
LogsSleep ==
    /\ pc = "logs_sleep"
    /\ idx' = idx + 1
    /\ Continue(NextLogMessage(Append(trace, SleepEv), idx + 1, messages))
    /\ UNCHANGED <<chat_id, triggers, upd, disk, path, created, messages, exc,
                   fs, fmtVars, runVars, shotVars, tailVars>>

\* the send of the simplified version: str(e) and message[:500]
LogsFallback ==
    /\ pc = "logs_fallback"
    /\ \E ok \in BOOLEAN :
        LET tr == Append(trace, SendEv("text", "Erro ao enviar log", idx, exc, ok))
        IN  IF ok
            THEN /\ idx' = idx + 1
                 /\ Continue(NextLogMessage(tr, idx + 1, messages))
            ELSE /\ idx' = idx
                 /\ Continue(Raised(tr))
    /\ UNCHANGED <<chat_id, triggers, upd, disk, path, created, messages, exc,
                   fs, fmtVars, runVars, shotVars, tailVars>>

\* LogsCritical going back to the send of the same message after a third
\* send that succeeded
LogsCriticalRetries ==
    /\ pc = "logs_critical"
    /\ \E ok \in BOOLEAN :
        LET tr == Append(trace, SendEv("text", "Erro critico ao enviar log", idx, exc, ok))
        IN  IF ok
            THEN /\ idx' = idx
                 /\ Continue(IF Len(tr) < 12 THEN Await("logs_send", tr)
                             ELSE NextLogMessage(tr, idx + 1, messages))
            ELSE /\ idx' = idx
                 /\ Continue(Raised(tr))
    /\ UNCHANGED <<chat_id, triggers, upd, disk, path, created, messages, exc,
                   fs, fmtVars, runVars, shotVars, tailVars>>

\* the send in the bare except clause of the simplified version
LogsCritical ==
    /\ pc = "logs_critical"
    /\ \E ok \in BOOLEAN :
        LET tr == Append(trace, SendEv("text", "Erro critico ao enviar log", idx, exc, ok))
        IN  IF ok
            THEN /\ idx' = idx + 1
                 /\ Continue(NextLogMessage(tr, idx + 1, messages))
            ELSE /\ idx' = idx
                 /\ Continue(Raised(tr))
    /\ UNCHANGED <<chat_id, triggers, upd, disk, path, created, messages, exc,
                   fs, fmtVars, runVars, shotVars, tailVars>>

(***************************************************************************)
(* _handle_message                                                         *)
(***************************************************************************)
\* the triggers of the table, from index i on, that are in message_lower
MatchesFrom(i, message_lower) ==
    {k \in i..Len(triggers) : Contains(triggers[k], message_lower)}

\* the for loop over self.triggers.items() goes on from index i
NextTrigger(tr, i, message_lower) ==
    LET m == MatchesFrom(i, message_lower)
    IN  IF m = {} THEN [k |-> Returned(tr), idx |-> 0]
        ELSE [k |-> Await("msg_trigger", tr),
              idx |-> CHOOSE j \in m : \A l \in m : j <= l]

MessageLower(u) == Strip(Lower(u.text))

MsgStart ==
    /\ pc = "text"
    /\ IF ~Authorized(upd)
       THEN /\ Continue(Returned(trace))
            /\ idx' = idx
       ELSE LET n == NextTrigger(Append(trace, LogEv("info")), 1, MessageLower(upd))
            IN  /\ Continue(n.k)
                /\ idx' = n.idx
    /\ UNCHANGED <<chat_id, triggers, upd, disk, path, created, messages, exc,
                   fs, fmtVars, runVars, shotVars, tailVars>>

\* MsgTrigger unregistering the trigger whose handler raised
MsgTriggerUnregisters ==
    /\ pc = "msg_trigger"
    /\ \E ok \in BOOLEAN :
        LET tr == Append(trace, FireEv(idx, ok))
            n  == NextTrigger(Append(tr, LogEv("info")), idx + 1, MessageLower(upd))
        IN  IF ok
            THEN /\ Continue(n.k)
                 /\ idx' = n.idx
                 /\ triggers' = triggers
            ELSE /\ Continue(Raised(tr))
                 /\ idx' = idx
                 /\ triggers' = SubSeq(triggers, 1, idx - 1)
                                    \o SubSeq(triggers, idx + 1, Len(triggers))
    /\ UNCHANGED <<chat_id, upd, disk, path, created, messages, exc,
                   fs, fmtVars, runVars, shotVars, tailVars>>

\* the handler of trigger idx has been awaited: it returned or raised
MsgTrigger ==
    /\ pc = "msg_trigger"
    /\ \E ok \in BOOLEAN :
        LET tr == Append(trace, FireEv(idx, ok))
            n  == NextTrigger(Append(tr, LogEv("info")), idx + 1, MessageLower(upd))
        IN  IF ok
            THEN /\ Continue(n.k)
                 /\ idx' = n.idx
            ELSE /\ Continue(Raised(tr))
                 /\ idx' = idx
    /\ UNCHANGED <<chat_id, triggers, upd, disk, path, created, messages, exc,
                   fs, fmtVars, runVars, shotVars, tailVars>>

(***************************************************************************)
(* The router                                                              *)
(***************************************************************************)
Init ==
    /\ chat_id \in ChatIdConfigs
    /\ triggers \in TriggerTables
    /\ pc = "idle"
    /\ upd = NoUpdate
    /\ trace = <<>>
    /\ disk = {}
    /\ path = None
    /\ created = {}
    /\ messages = <<>>
    /\ idx = 0
    /\ exc = ""
    /\ outcome = "none"
    /\ fs = NoLogDirs
    /\ fmtResults = <<>>
    /\ fmtMax = DefaultMaxMessageLength
    /\ fmtOut = <<>>
    /\ fmtDone = FALSE
    /\ run = "polling"
    /\ signal = None
    /\ lifecycle = <<>>
    /\ inv = NoInvocations
    /\ tmpfiles = NoTmpFiles
    /\ clock = 0
    /\ tailLines = TailLines
    /\ tails = <<>>

\* the steps of the handler coroutines: a coroutine is resumed when the
\* send it awaits has returned or raised
HandlerStep ==
    \/ PingStart
    \/ PingReply
    \/ StatusStart
    \/ StatusReply
    \/ Apology
    \/ ShotStart
    \/ ShotAck
    \/ ShotPhoto
    \/ ShotFail
    \/ WslStart
    \/ WslAck
    \/ WslInnerSend
    \/ WslSendErr
    \/ WslFailureReply
    \/ LogsStart
    \/ LogsAck
    \/ LogsSummary
    \/ LogsSend
    \/ LogsSleep
    \/ LogsFallback
    \/ LogsCritical
    \/ MsgStart
    \/ MsgTrigger

Next ==
    \/ Receive
    \/ HandlerStep

Spec == Init /\ [][Next]_vars

\* every awaited send and handler returns or raises, so a suspended
\* coroutine is eventually resumed
SpecLive == Spec /\ WF_vars(HandlerStep)

(***************************************************************************)
(* format_log_results_for_telegram applied to lists of records             *)
(***************************************************************************)
\* lengths of the tails given to the formatter
MaxShortTail == 2

MidTail == 60

LongTail == 6000

\* ceilings below the default one
SmallCeiling == 200

TinyCeiling == 100

FmtCeilings == {DefaultMaxMessageLength, SmallCeiling, TinyCeiling}

FmtSizes == {0, 1023, 1024, 1280, 1048575, 1048576, 1073741823, 1073741824}

FmtContents ==
    {Pad(n) : n \in 0..MaxShortTail} \cup {Pad(MidTail), Pad(LongTail)}
        \cup { <<"x", BT, BT, BT, BT, "\n">>, <<BT, "x", BT, BT>> }

FmtSuccessRecords ==
    {SuccessRecord(d, Pad(5), size, content) :
        d \in {1, 3}, size \in FmtSizes, content \in FmtContents}

FmtOtherRecords ==
    {DirLevelRecord(2, s) :
        s \in {"directory_not_found", "logs_subdir_not_found", "no_logs_found"}}
        \cup {ErrorRecord(4, Pad(5))}

FmtPairRecords ==
    FmtOtherRecords
        \cup {SuccessRecord(3, Pad(5), 1024, content) :
                content \in {Pad(MaxShortTail), Pad(MidTail), <<BT, "x", BT, BT>>}}

FmtInputs ==
    {<<>>} \cup {<<r>> : r \in FmtSuccessRecords \cup FmtOtherRecords}
        \cup {<<r1, r2>> : r1 \in FmtPairRecords, r2 \in FmtPairRecords}

InitFmt ==
    /\ chat_id = <<"7">>
    /\ triggers = <<>>
    /\ pc = "idle"
    /\ upd = NoUpdate
    /\ trace = <<>>
    /\ disk = {}
    /\ path = None
    /\ created = {}
    /\ messages = <<>>
    /\ idx = 0
    /\ exc = ""
    /\ outcome = "none"
    /\ fs = NoLogDirs
    /\ fmtResults \in FmtInputs
    /\ fmtMax \in FmtCeilings
    /\ fmtOut = <<>>
    /\ fmtDone = FALSE
    /\ run = "polling"
    /\ signal = None
    /\ lifecycle = <<>>
    /\ inv = NoInvocations
    /\ tmpfiles = NoTmpFiles
    /\ clock = 0
    /\ tailLines = TailLines
    /\ tails = <<>>

Format ==
    /\ ~fmtDone
    /\ fmtOut' = format_log_results_for_telegram(fmtResults, fmtMax)
    /\ fmtDone' = TRUE
    /\ UNCHANGED <<fmtResults, fmtMax, routerVars, runVars, shotVars, tailVars>>

NextFmt == Format

SpecFmt == InitFmt /\ [][NextFmt]_vars

\* the space the formatter computes for the content of a 'success' record
AvailableSpace(result, max_message_length) ==
    max_message_length - Len(SuccessHeader(result)) - SafetyMargin

\* C7: for every success record and every ceiling, a tail longer than the
\* available space gives a message no longer than the ceiling that ends
\* with the truncation marker.
C7_TruncationLaw ==
    fmtDone =>
        \A i \in 1..Len(fmtResults) :
            (/\ fmtResults[i].status = "success"
             /\ Len(fmtResults[i].content) > AvailableSpace(fmtResults[i], fmtMax))
            => /\ Len(fmtOut[i]) <= fmtMax
               /\ EndsWith(fmtOut[i], TruncationMarker)

(***************************************************************************)
(* Reading the trace of an invocation                                      *)
(***************************************************************************)
Done == pc = "done"

Sends(tr) == SelectSeq(tr, LAMBDA e : e.ev = "send")

CallsOf(tr, provider) ==
    SelectSeq(tr, LAMBDA e : e.ev = "call" /\ e.what = provider)

LogsAt(tr, level) == SelectSeq(tr, LAMBDA e : e.ev = "log" /\ e.what = level)

Fired(tr) == SelectSeq(tr, LAMBDA e : e.ev = "fire")

Cleanups(tr) == SelectSeq(tr, LAMBDA e : e.ev = "cleanup")

AllSendsOk(tr) == \A i \in 1..Len(tr) : tr[i].ev = "send" => tr[i].ok

\* the provider bound to each command
ProviderOf(command) ==
    CASE command = "ping"           -> "ping_response"
      [] command = "status"         -> "system_status"
      [] command = "screenshot"     -> "take_screenshot"
      [] command = "wsl_screenshot" -> "wsl_screenshot"
      [] command = "logs"           -> "get_tails"

\* the number of sends a command handler awaits before it calls its provider
SendsBeforeProvider(command) ==
    CASE command \in {"ping", "status"}               -> 0
      [] command \in {"screenshot", "wsl_screenshot"} -> 1
      [] command = "logs"                             -> 2

AuthorizedCommand == upd.kind \in Commands /\ Authorized(upd)

\* C1: a message of a chat whose identifier, as a string, is not the
\* configured chat_id causes no outbound send and no provider or trigger
\* invocation, at any point of its handling.
C1_UnauthorizedDoesNothing ==
    (upd # NoUpdate /\ ToStr(upd.chat) # chat_id) =>
        \A i \in 1..Len(trace) : trace[i].ev \notin {"send", "call", "fire", "cleanup"}

\* a command of chat 7 handled to its end under chat_id "07"
C1_Witness ==
    /\ Done
    /\ upd.chat = 7
    /\ chat_id = <<"0", "7">>
    /\ upd.kind = "logs"
    /\ Sends(trace) = <<>>

Matching == MatchesFrom(1, MessageLower(upd))

\* C3 as claimed: on a free-text message of the authorized chat every
\* matching trigger fires, in registration order, also when the handler of
\* an earlier matching trigger raises; no send is made by the router.
C3_AllMatchingTriggersFire ==
    (Done /\ upd.kind = "text" /\ Authorized(upd)) =>
        LET f == Fired(trace)
        IN  /\ {f[i].n : i \in 1..Len(f)} = Matching
            /\ \A i \in 1..(Len(f) - 1) : f[i].n < f[i + 1].n
            /\ Sends(trace) = <<>>

\* C4: no handler lets an exception escape, whatever raises.
C4_NoExceptionEscapes == outcome # "raised"

\* a handler returned although the apology send itself raised
C4_Witness ==
    /\ Done
    /\ outcome = "returned"
    /\ Len(trace) > 0
    /\ trace[Len(trace)].ev = "send"
    /\ trace[Len(trace)].body = ApologyText("logs_apology")
    /\ ~trace[Len(trace)].ok

\* C5 as claimed: every message of the /logs batch gets at least one send
\* attempt; a message whose sends fail never aborts the batch.
C5_EveryMessageAttempted ==
    (Done /\ upd.kind = "logs" /\ messages # <<>>) =>
        \A m \in 1..Len(messages) :
            \E i \in 1..Len(trace) :
                /\ trace[i].ev = "send"
                /\ trace[i].body = "log_message"
                /\ trace[i].n = m

\* C6 as claimed: when a screenshot handler has completed, no temporary
\* file its provider created exists.
C6_TemporaryFilesGone ==
    (Done /\ upd.kind \in {"screenshot", "wsl_screenshot"}) =>
        created \cap disk = {}

\* no monitored directory has a log file
NoLogFiles(dirs) == \A d \in 1..Len(dirs) : dirs[d].files = <<>>

Bodies(tr) == [i \in 1..Len(Sends(tr)) |-> Sends(tr)[i].body]

\* C8 as claimed: with no log file in any monitored directory, the sends
\* that follow the acknowledgement are the summary and one 'no logs found'
\* message (stated for the executions in which every send succeeds).
C8_SummaryThenOneFallback ==
    (Done /\ upd.kind = "logs" /\ Authorized(upd) /\ NoLogFiles(fs)
          /\ AllSendsOk(trace)) =>
        Bodies(trace) = <<"Buscando logs dos diretorios...", "summary",
                          "Nenhum log encontrado.">>

\* the status get_tails gives a directory without log files
DirStatus(dir) ==
    IF ~dir.exists THEN "directory_not_found"
    ELSE IF ~dir.has_logs THEN "logs_subdir_not_found"
    ELSE "no_logs_found"

\* C8 amended: with no log file in any monitored directory, the outbound
\* sequence, when every send succeeds, is the acknowledgement, the summary
\* and one directory-status message per monitored directory, in the order
\* of target_dirs; the 'no logs found' text is never sent.
C8_SummaryThenDirectoryStatuses ==
    (upd.kind = "logs" /\ Authorized(upd) /\ NoLogFiles(fs)) =>
        /\ \A i \in 1..Len(trace) :
              trace[i].ev = "send" => trace[i].body # "Nenhum log encontrado."
        /\ (Done /\ AllSendsOk(trace)) =>
              /\ Bodies(trace) =
                    <<"Buscando logs dos diretorios...", "summary">>
                        \o [d \in 1..Len(target_dirs) |-> "log_message"]
              /\ \A d \in 1..Len(target_dirs) : Sends(trace)[d + 2].n = d
              /\ messages =
                    [d \in 1..Len(target_dirs) |->
                        Pad(3) \o target_dirs[d] \o <<"\n", "\n">>
                        \o DirLevelRecord(d, DirStatus(fs[d])).content]

\* /logs answered in full where the directories exist and hold no log file
C8_Witness ==
    /\ Done
    /\ upd.kind = "logs"
    /\ Authorized(upd)
    /\ \A d \in 1..Len(fs) : fs[d] = DirEmpty
    /\ AllSendsOk(trace)
    /\ Len(Sends(trace)) = 6

ShotFailureTexts ==
    {"Erro ao capturar screenshot. Verifique as dependencias.",
     ApologyText("shot_apology")}

\* /screenshot of the authorized chat whose provider returned no path
ShotNoPath ==
    /\ Done
    /\ upd.kind = "screenshot"
    /\ Authorized(upd)
    /\ Len(CallsOf(trace, "take_screenshot")) = 1
    /\ path = None

\* C9 as claimed: exactly one failure message is sent (counted as send
\* attempts or as delivered messages), no image is sent, nothing is cleaned.
C9_ExactlyOneFailureMessage ==
    ShotNoPath =>
        LET failures == SelectSeq(Sends(trace), LAMBDA e : e.body \in ShotFailureTexts)
        IN  /\ \/ Len(failures) = 1
               \/ Len(SelectSeq(failures, LAMBDA e : e.ok)) = 1
            /\ \A i \in 1..Len(trace) : trace[i].what # "photo"
            /\ Cleanups(trace) = <<>>

\* C9 amended: the fixed failure message is attempted exactly once, and
\* the generic apology once if and only if that attempt raised; no image
\* is sent and nothing is cleaned.
C9_FailureMessageThenApologyIfItRaised ==
    ShotNoPath =>
        LET s == Sends(trace)
        IN  /\ Len(s) \in {2, 3}
            /\ s[1].body = "Capturando screenshot..." /\ s[1].ok
            /\ s[2].body = "Erro ao capturar screenshot. Verifique as dependencias."
            /\ Len(s) = 3 <=> ~s[2].ok
            /\ Len(s) = 3 => s[3].body = ApologyText("shot_apology")
            /\ \A i \in 1..Len(trace) : trace[i].what # "photo"
            /\ Cleanups(trace) = <<>>

\* the failure message delivered after a capture that returned no path
C9_Witness ==
    /\ ShotNoPath
    /\ Len(Sends(trace)) = 2
    /\ AllSendsOk(trace)

\* C10 as claimed: every message of an unauthorized chat, command or free
\* text, leaves exactly one warning log entry and no outbound message.
C10_UnauthorizedLogsOneWarning ==
    (Done /\ upd.kind \in Commands \cup {"text"} /\ ~Authorized(upd)) =>
        /\ Len(LogsAt(trace, "warning")) = 1
        /\ Sends(trace) = <<>>

\* C11: an authorized /ping whose send succeeds makes exactly one outbound
\* send, a text message whose body is exactly "Pong! " followed by the
\* ping-pong emoji (written U+1F3D3 here).
C11_PingRepliesPong ==
    (Done /\ upd.kind = "ping" /\ ToStr(upd.chat) = chat_id /\ AllSendsOk(trace)) =>
        /\ Len(Sends(trace)) = 1
        /\ Sends(trace)[1].what = "text"
        /\ Sends(trace)[1].body = "Pong! U+1F3D3"

\* an authorized /ping answered
C11_Witness ==
    /\ Done
    /\ upd.kind = "ping"
    /\ ToStr(upd.chat) = chat_id
    /\ Len(Sends(trace)) = 1
    /\ AllSendsOk(trace)
    /\ outcome = "returned"

\* C12 as claimed: no outbound message body contains the text of a raised
\* exception; every message of a failure path is a fixed text.
C12_NoExceptionTextSent ==
    \A i \in 1..Len(trace) : trace[i].ev = "send" => trace[i].exc = ""

\* C13: a message that starts with a command token other than the five
\* registered ones is given to no handler: no send, no provider call, no
\* trigger fires, although its text contains a registered trigger.
C13_UnknownCommandIgnored ==
    upd.kind \in UnknownCommands =>
        /\ pc = "done"
        /\ \A i \in 1..Len(trace) : trace[i].ev \notin {"send", "call", "fire"}

\* "/c ab" of the authorized chat, dropped while trigger "a" is registered
C13_Witness ==
    /\ Done
    /\ upd.kind \in UnknownCommands
    /\ ToStr(upd.chat) = chat_id
    /\ triggers # <<>>
    /\ Matching # {}
    /\ trace = <<>>

\* C14: no step of any handler, successful or failing, changes chat_id or
\* the triggers table (the registered handlers are the fixed list
\* RegisteredHandlers): they keep the values they got at construction.
C14_RouterStateReadOnly ==
    [][chat_id' = chat_id /\ triggers' = triggers]_vars

\* a trigger handler raised and the invocation has ended, the table
\* still holding both triggers
C14_Witness ==
    /\ Done
    /\ upd.kind = "text"
    /\ triggers = <<<<"a">>, <<"b">>>>
    /\ \E i \in 1..Len(trace) : trace[i].ev = "fire" /\ ~trace[i].ok

PositionsOf(tr, ev, body) ==
    {i \in 1..Len(tr) : tr[i].ev = ev /\ (tr[i].body = body \/ tr[i].what = body)}

\* the sends of the batch: those that carry the index of a formatted message
BatchSends(tr) == SelectSeq(tr, LAMBDA e : e.ev = "send" /\ e.n > 0)

AuthorizedLogs == upd.kind = "logs" /\ Authorized(upd)

C20_DelayBetweenMessages ==
    AuthorizedLogs =>
        \A p \in 1..Len(trace), q \in 1..Len(trace) :
            (/\ p < q
             /\ trace[p].ev = "send" /\ trace[p].n > 0
             /\ trace[q].ev = "send" /\ trace[q].n = trace[p].n + 1)
            => \E k \in (p + 1)..(q - 1) : trace[k].ev = "sleep"

\* C18 as claimed: every external process a provider starts is bounded by a
\* timeout, so no handler stays forever in a provider call whose external
\* tool never returns.
C18_NoHandlerBlockedByExternalTool == pc # "blocked"

(***************************************************************************)
(* start_monitoring and stop_monitoring                                    *)
(*                                                                         *)
(* run is the await the coroutine is suspended at; lifecycle lists the     *)
(* Application and Updater calls awaited so far and whether each returned  *)
(* (ok) or raised.  A signal is delivered once signal.signal() has         *)
(* installed signal_handler, which sets stop_event.                        *)
(***************************************************************************)
Signals == {"SIGINT", "SIGTERM"}

LifecycleEv(call, ok) == [call |-> call, ok |-> ok]

\* self.application.updater.running: polling was started and not stopped
UpdaterRunning(lc) ==
    /\ \E i \in 1..Len(lc) : lc[i].call = "updater.start_polling" /\ lc[i].ok
    /\ ~\E i \in 1..Len(lc) : lc[i].call = "updater.stop" /\ lc[i].ok

\* an exception of the try block of start_monitoring is re-raised after the
\* finally clause
StartRaised(lc) ==
    \E i \in 1..Len(lc) :
        /\ lc[i].call \in {"initialize", "start", "updater.start_polling"}
        /\ ~lc[i].ok

\* the finally clause calls stop_monitoring, which awaits updater.stop()
\* only if the updater is running
EnterStop(lc) == IF UpdaterRunning(lc) THEN "updater_stop" ELSE "app_stop"

\* stop_monitoring has returned (its except clause only logs), and
\* start_monitoring returns or re-raises
LeaveStop(lc) == IF StartRaised(lc) THEN "raised" ELSE "returned"

\* the finally clause of start_monitoring calls stop_monitoring
Stopping(lc) == Append(lc, LifecycleEv("stop_monitoring", TRUE))

\* main reads TELEGRAM_BOT_TOKEN and TELEGRAM_CHAT_ID: with one of them
\* missing or empty it prints a message and returns, otherwise it constructs
\* the monitor and awaits start_monitoring
RunMain ==
    /\ run = "main"
    /\ \E token_set \in BOOLEAN, chat_set \in BOOLEAN :
        /\ lifecycle' = Append(lifecycle, LifecycleEv("getenv", token_set /\ chat_set))
        /\ run' = IF token_set /\ chat_set THEN "initialize" ELSE "no_config"
    /\ UNCHANGED <<signal, routerVars, fmtVars, shotVars, tailVars>>

\* one awaited call of the try block of start_monitoring
RunStep(call, next) ==
    /\ \E ok \in BOOLEAN :
        /\ lifecycle' = IF ok THEN Append(lifecycle, LifecycleEv(call, ok))
                        ELSE Stopping(Append(lifecycle, LifecycleEv(call, ok)))
        /\ run' = IF ok THEN next ELSE EnterStop(lifecycle')
    /\ UNCHANGED <<signal, routerVars, fmtVars, shotVars, tailVars>>

RunInitialize ==
    /\ run = "initialize"
    /\ RunStep("initialize", "start")

RunAppStart ==
    /\ run = "start"
    /\ RunStep("start", "start_polling")

\* after start_polling() the handlers are installed and stop_event awaited
RunStartPolling ==
    /\ run = "start_polling"
    /\ RunStep("updater.start_polling", "waiting")

\* SIGINT or SIGTERM while stop_event.wait() is awaited: signal_handler
\* sets stop_event
Signal ==
    /\ run = "waiting"
    /\ signal = None
    /\ signal' \in Signals
    /\ UNCHANGED <<run, lifecycle, routerVars, fmtVars, shotVars, tailVars>>

\* RunWake with a wait that may return although no signal was delivered
RunWakeUnsignalled ==
    /\ run = "waiting"
    /\ lifecycle' = Stopping(lifecycle)
    /\ run' = EnterStop(lifecycle)
    /\ UNCHANGED <<signal, routerVars, fmtVars, shotVars, tailVars>>

\* stop_event.wait() returns and the finally clause enters stop_monitoring
RunWake ==
    /\ run = "waiting"
    /\ signal # None
    /\ lifecycle' = Stopping(lifecycle)
    /\ run' = EnterStop(lifecycle)
    /\ UNCHANGED <<signal, routerVars, fmtVars, shotVars, tailVars>>

\* one awaited call of the try block of stop_monitoring: an exception
\* leaves the block, the calls after it are not made
StopStep(call, next) ==
    /\ \E ok \in BOOLEAN :
        /\ lifecycle' = Append(lifecycle, LifecycleEv(call, ok))
        /\ run' = IF ok /\ next # "end" THEN next ELSE LeaveStop(lifecycle')
    /\ UNCHANGED <<signal, routerVars, fmtVars, shotVars, tailVars>>

RunUpdaterStop ==
    /\ run = "updater_stop"
    /\ StopStep("updater.stop", "app_stop")

RunApplicationStop ==
    /\ run = "app_stop"
    /\ StopStep("application.stop", "shutdown")

RunShutdown ==
    /\ run = "shutdown"
    /\ StopStep("application.shutdown", "end")

InitRun ==
    /\ chat_id \in ChatIdConfigs
    /\ triggers \in TriggerTables
    /\ pc = "idle"
    /\ upd = NoUpdate
    /\ trace = <<>>
    /\ disk = {}
    /\ path = None
    /\ created = {}
    /\ messages = <<>>
    /\ idx = 0
    /\ exc = ""
    /\ outcome = "none"
    /\ fs = NoLogDirs
    /\ fmtResults = <<>>
    /\ fmtMax = DefaultMaxMessageLength
    /\ fmtOut = <<>>
    /\ fmtDone = FALSE
    /\ run = "main"
    /\ signal = None
    /\ lifecycle = <<>>
    /\ inv = NoInvocations
    /\ tmpfiles = NoTmpFiles
    /\ clock = 0
    /\ tailLines = TailLines
    /\ tails = <<>>

NextRun ==
    \/ RunMain
    \/ RunInitialize
    \/ RunAppStart
    \/ RunStartPolling
    \/ Signal
    \/ RunWake
    \/ RunUpdaterStop
    \/ RunApplicationStop
    \/ RunShutdown

SpecRun == InitRun /\ [][NextRun]_vars

\* the calls made on the Application and its Updater, in order
CallsMade(lc) ==
    LET app == SelectSeq(lc, LAMBDA e : e.call \notin {"getenv", "stop_monitoring"})
    IN  [i \in 1..Len(app) |-> app[i].call]

\* C17 as claimed: once polling has started and SIGINT or SIGTERM has been
\* delivered, the run loop ends only after the updater was stopped, then
\* the application stopped, then the application shut down, each once.
C17_SignalGivesOrderlyShutdown ==
    (signal # None /\ run \in {"returned", "raised"}) =>
        /\ CallsMade(lifecycle) =
              <<"initialize", "start", "updater.start_polling",
                "updater.stop", "application.stop", "application.shutdown">>
        /\ \A i \in 1..Len(lifecycle) : lifecycle[i].ok

(***************************************************************************)
(* Two screenshot invocations in flight together                           *)
(*                                                                         *)
(* inv[i].pc is the await invocation i is suspended at.  The capture is a  *)
(* synchronous call: naming the file, writing it and opening it for the    *)
(* send happen in one step, at the second the clock shows.                 *)
(***************************************************************************)
\* an authorized /screenshot or /wsl_screenshot is dispatched; the handler
\* runs up to the await of its acknowledgement send
ShotsReceive(i) ==
    /\ inv[i].pc = "idle"
    /\ \E kind \in ShotCommands :
        inv' = [inv EXCEPT ![i] = [pc |-> "ack", kind |-> kind, path |-> None]]
    /\ UNCHANGED <<tmpfiles, clock, routerVars, fmtVars, runVars, tailVars>>

\* the acknowledgement send has completed: when it raised the handler
\* apologises and ends; otherwise the provider is called, and a capture
\* writes the file named after the current second, the handler opens it
\* and awaits reply_photo; with no capture it awaits the failure message
ShotsCapture(i) ==
    /\ inv[i].pc = "ack"
    /\ \E ack_ok \in BOOLEAN, captured \in BOOLEAN :
        LET p == TmpPath(inv[i].kind, clock) IN
        IF ~ack_ok
        THEN /\ inv' = [inv EXCEPT ![i].pc = "failing"]
             /\ UNCHANGED tmpfiles
        ELSE IF captured
        THEN /\ tmpfiles' = [tmpfiles EXCEPT ![p] = i]
             /\ inv' = [inv EXCEPT ![i].pc = "sending", ![i].path = p]
        ELSE /\ inv' = [inv EXCEPT ![i].pc = "failing"]
             /\ UNCHANGED tmpfiles
    /\ UNCHANGED <<clock, routerVars, fmtVars, runVars, tailVars>>

\* reply_photo has returned or raised: the finally clause removes the path
\* if it exists (cleanup_screenshot, cleanup_wsl_screenshot)
ShotsFinish(i) ==
    /\ inv[i].pc = "sending"
    /\ tmpfiles' = [tmpfiles EXCEPT ![inv[i].path] = 0]
    /\ inv' = [inv EXCEPT ![i].pc = "done"]
    /\ UNCHANGED <<clock, routerVars, fmtVars, runVars, tailVars>>

\* the failure message or the apology has been sent; nothing to clean up
ShotsFail(i) ==
    /\ inv[i].pc = "failing"
    /\ inv' = [inv EXCEPT ![i].pc = "done"]
    /\ UNCHANGED <<tmpfiles, clock, routerVars, fmtVars, runVars, tailVars>>

\* the wall clock reaches the next second
Tick ==
    /\ clock < MaxClock
    /\ clock' = clock + 1
    /\ UNCHANGED <<inv, tmpfiles, routerVars, fmtVars, runVars, tailVars>>

InitShots ==
    /\ chat_id \in ChatIdConfigs
    /\ triggers \in TriggerTables
    /\ pc = "idle"
    /\ upd = NoUpdate
    /\ trace = <<>>
    /\ disk = {}
    /\ path = None
    /\ created = {}
    /\ messages = <<>>
    /\ idx = 0
    /\ exc = ""
    /\ outcome = "none"
    /\ fs = NoLogDirs
    /\ fmtResults = <<>>
    /\ fmtMax = DefaultMaxMessageLength
    /\ fmtOut = <<>>
    /\ fmtDone = FALSE
    /\ run = "waiting"
    /\ signal = None
    /\ lifecycle = <<>>
    /\ inv = NoInvocations
    /\ tmpfiles = NoTmpFiles
    /\ clock = 0
    /\ tailLines = TailLines
    /\ tails = <<>>

NextShots ==
    \/ \E i \in Invocations : ShotsReceive(i)
    \/ \E i \in Invocations : ShotsCapture(i)
    \/ \E i \in Invocations : ShotsFinish(i)
    \/ \E i \in Invocations : ShotsFail(i)
    \/ Tick

SpecShots == InitShots /\ [][NextShots]_vars

\* C15 as claimed: while an invocation awaits the send of the file it
\* captured, the file at its path exists and is the one it wrote (no other
\* invocation has overwritten or deleted it), no other invocation in flight
\* refers to the same path, and once both invocations are done no
\* temporary file is left.
C15_TempFileOfOneInvocation ==
    /\ \A i \in Invocations :
           inv[i].pc = "sending" =>
               /\ tmpfiles[inv[i].path] = i
               /\ \A j \in Invocations \ {i} :
                      inv[j].pc = "sending" => inv[j].path # inv[i].path
    /\ (\A i \in Invocations : inv[i].pc = "done") =>
           \A p \in TmpPaths : tmpfiles[p] = 0

\* an authorized /screenshot or /wsl_screenshot is being, or has been, handled
AuthorizedShot == upd.kind \in ShotCommands /\ ToStr(upd.chat) = chat_id

\* C21: on an authorized /screenshot or /wsl_screenshot the provider is
\* invoked only after the acknowledgement has been sent, the image send is
\* attempted only after the provider has returned a path, and the cleanup
\* of the temporary file comes after the provider call and is followed by no
\* image send.
C21_AckProviderPhotoCleanupOrder ==
    AuthorizedShot =>
        \A i \in 1..Len(trace) :
            /\ (trace[i].ev = "call" /\ trace[i].what = ProviderOf(upd.kind)) =>
                   \E j \in 1..(i - 1) :
                       /\ trace[j].ev = "send" /\ trace[j].ok
                       /\ trace[j].body \in {"Capturando screenshot...",
                                             "Capturando screenshot via WSL..."}
                       /\ \A k \in 1..(j - 1) : trace[k].ev # "send"
            /\ (trace[i].ev = "send" /\ trace[i].what = "photo") =>
                   /\ path # None
                   /\ \E j \in 1..(i - 1) :
                          trace[j].ev = "call" /\ trace[j].what = ProviderOf(upd.kind)
            /\ trace[i].ev = "cleanup" =>
                   /\ \E j \in 1..(i - 1) :
                          trace[j].ev = "call" /\ trace[j].what = ProviderOf(upd.kind)
                   /\ \A k \in (i + 1)..Len(trace) :
                          ~(trace[k].ev = "send" /\ trace[k].what = "photo")

\* a screenshot handler has sent the image and removed the file
C21_Witness ==
    /\ AuthorizedShot
    /\ pc = "done"
    /\ \E i, j \in 1..Len(trace) :
        /\ i < j
        /\ trace[i].ev = "send" /\ trace[i].what = "photo"
        /\ trace[j].ev = "cleanup" /\ trace[j].what = path
    /\ path \notin disk

\* C22: in both screenshot handlers the cleanup function is invoked exactly
\* once, for the returned path, whenever the provider returned a path (the
\* image send having succeeded, raised, or not been reached because the
\* file could not be opened), it leaves no file at that path, and it is
\* never invoked when the provider returned no path.
C22_CleanupOncePerReturnedPath ==
    AuthorizedShot =>
        /\ Len(Cleanups(trace)) <= 1
        /\ \A i \in 1..Len(trace) :
               trace[i].ev = "cleanup" => trace[i].what = path /\ path # None
        /\ (pc = "done" /\ path # None) =>
               Len(Cleanups(trace)) = 1 /\ path \notin disk
        /\ (pc = "done" /\ path = None) => Len(Cleanups(trace)) = 0

\* the image send raised and the file was removed all the same
C22_Witness ==
    /\ AuthorizedShot
    /\ pc = "done"
    /\ path # None
    /\ \E i \in 1..Len(trace) :
        trace[i].ev = "send" /\ trace[i].what = "photo" /\ ~trace[i].ok
    /\ Len(Cleanups(trace)) = 1

\* the send attempts made for message m of the /logs batch
AttemptsFor(tr, m) ==
    SelectSeq(tr, LAMBDA e : e.ev = "send" /\ e.n = m)

\* C23: a handler invocation that has started reaches its end, as long as
\* no provider call stays without return (pc = "blocked"), and /logs makes
\* at most 3 send attempts for each message of its batch.
C23_HandlerTerminates ==
    /\ [](\A m \in 1..Len(messages) : Len(AttemptsFor(trace, m)) <= 3)
    /\ (pc \notin {"idle", "done", "blocked"}) ~> (pc \in {"done", "blocked"})

\* /logs has returned after three send attempts for one message of a batch
\* of several
C23_Witness ==
    /\ pc = "done"
    /\ upd.kind = "logs"
    /\ outcome = "returned"
    /\ Len(messages) >= 2
    /\ \E m \in 1..Len(messages) : Len(AttemptsFor(trace, m)) = 3

\* the number of times stop_monitoring has been called
StopCalls(lc) == Len(SelectSeq(lc, LAMBDA e : e.call = "stop_monitoring"))

\* C24: main returns without constructing or starting a monitor exactly
\* when the token or the chat id is missing; start_monitoring is past its
\* wait only when SIGINT or SIGTERM was received or a startup step raised;
\* stop_monitoring is called exactly once by the time start_monitoring
\* ends, and start_monitoring raises only a startup exception, never one
\* of stop_monitoring.
C24_ExitOnlyOnSignalOrStartupFailure ==
    /\ run # "main" =>
           /\ lifecycle[1].call = "getenv"
           /\ run = "no_config" <=> ~lifecycle[1].ok
    /\ run = "no_config" => Len(lifecycle) = 1
    /\ run \in {"updater_stop", "app_stop", "shutdown", "returned", "raised"} =>
           /\ signal # None \/ StartRaised(lifecycle)
           /\ StopCalls(lifecycle) = 1
    /\ run \in {"main", "no_config", "initialize", "start", "start_polling", "waiting"} =>
           StopCalls(lifecycle) = 0
    /\ run = "raised" <=>
           (run \notin {"updater_stop", "app_stop", "shutdown"}
            /\ StopCalls(lifecycle) = 1 /\ StartRaised(lifecycle))

\* a signal ended the wait and start_monitoring returned although a step of
\* stop_monitoring raised
C24_Witness ==
    /\ run = "returned"
    /\ signal # None
    /\ StopCalls(lifecycle) = 1
    /\ \E i \in 1..Len(lifecycle) : lifecycle[i].call = "updater.stop" /\ ~lifecycle[i].ok

\* the first characters of the message of a record: the marker of its kind
\* (two characters and a space, or one and a space) and its directory
MessageStart(result) ==
    (IF result.status \in {"success", "error"} THEN Pad(2) ELSE Pad(3))
        \o result.directory

StartsWith(s, prefix) ==
    Len(s) >= Len(prefix) /\ SubSeq(s, 1, Len(prefix)) = prefix

\* C25: for a non-empty list of records (success, error or one of the three
\* directory-level statuses) the formatter returns as many messages as
\* records, message i being the one of record i.
C25_OneMessagePerRecord ==
    (fmtDone /\ fmtResults # <<>>) =>
        /\ Len(fmtOut) = Len(fmtResults)
        /\ \A i \in 1..Len(fmtResults) :
               /\ StartsWith(fmtOut[i], MessageStart(fmtResults[i]))
               /\ fmtResults[i].status # "success" =>
                      EndsWith(fmtOut[i], fmtResults[i].content)

\* two records of different kinds and directories were formatted
C25_Witness ==
    /\ fmtDone
    /\ Len(fmtResults) = 2
    /\ fmtResults[1].status = "error"
    /\ fmtResults[2].status = "success"
    /\ Len(fmtOut) = 2

\* the part of message i that follows the header of its success record
ContentPart(i) ==
    SubSeq(fmtOut[i], Len(SuccessHeader(fmtResults[i])) + 1, Len(fmtOut[i]))

\* C26: in the message of a success record the content part holds no
\* backtick; it is the truncated content, character for character, with
\* each backtick replaced by one character ("-" or the plain quote), so
\* the sanitization leaves the length of the truncated content unchanged.
C26_NoBacktickSameLength ==
    fmtDone =>
        \A i \in 1..Len(fmtResults) :
            fmtResults[i].status = "success" =>
                LET cut  == Truncate(fmtResults[i].content,
                                     AvailableSpace(fmtResults[i], fmtMax))
                    part == ContentPart(i)
                IN  /\ Len(part) = Len(cut)
                    /\ \A k \in 1..Len(part) :
                           /\ part[k] # BT
                           /\ cut[k] # BT => part[k] = cut[k]
                           /\ cut[k] = BT => part[k] \in {"-", Quote}

\* a content with a triple and a single backtick was formatted
C26_Witness ==
    /\ fmtDone
    /\ Len(fmtResults) = 1
    /\ fmtResults[1].status = "success"
    /\ fmtResults[1].content = <<"x", BT, BT, BT, BT, "\n">>
    /\ ContentPart(1) = <<"x", "-", "-", "-", Quote, "\n">>

\* the texts sent when wsl_screenshot() returned no path
WslNoPathTexts ==
    {"Screenshot WSL falhou, mas capturei info do Zellij",
     "Falha ao capturar screenshot WSL. Verifique"}

\* the file wsl_screenshot() returned was not there when looked for
WslFileMissing ==
    \E i \in 1..Len(trace) : trace[i].what = "os.path.exists" /\ ~trace[i].ok

\* an authorized /wsl_screenshot has been handled, its acknowledgement was
\* sent, the provider was called and failed
WslProviderFailed ==
    /\ pc = "done"
    /\ upd.kind = "wsl_screenshot"
    /\ ToStr(upd.chat) = chat_id
    /\ Len(CallsOf(trace, "wsl_screenshot")) = 1
    /\ path = None \/ WslFileMissing

NoPhotoSend(tr) ==
    \A i \in 1..Len(tr) : ~(tr[i].ev = "send" /\ tr[i].what = "photo")

\* C27 as claimed: after a failed provider no image send is attempted and
\* exactly one failure message follows the acknowledgement, the
\* likely-causes text or the Zellij fallback.
C27_ExactlyOneWslFailureMessage ==
    WslProviderFailed =>
        LET s == Sends(trace)
        IN  /\ NoPhotoSend(trace)
            /\ Len(s) = 2
            /\ s[2].body \in WslNoPathTexts

\* C27, amended: after a failed provider no image send is attempted and
\* the first message after the acknowledgement is the failure message:
\* with no path, the Zellij fallback or the likely-causes text, followed by
\* the apology only if that send raised; with a path whose file is
\* missing, the fixed text saying so, followed by "Erro ao enviar
\* screenshot." only if that send raised and by the apology only if that
\* one raised too.  Nothing else is sent.
C27_WslFailureMessageThenFollowUps ==
    WslProviderFailed =>
        LET s == Sends(trace)
        IN  /\ NoPhotoSend(trace)
            /\ Len(s) >= 2
            /\ IF path = None
               THEN /\ s[2].body \in WslNoPathTexts
                    /\ Len(s) = IF s[2].ok THEN 2 ELSE 3
                    /\ Len(s) = 3 => s[3].body = ApologyText("wsl_apology")
               ELSE /\ s[2].body = "Arquivo de screenshot nao encontrado."
                    /\ Len(s) = IF s[2].ok THEN 2 ELSE IF s[3].ok THEN 3 ELSE 4
                    /\ Len(s) >= 3 => s[3].body = "Erro ao enviar screenshot."
                    /\ Len(s) = 4 => s[4].body = ApologyText("wsl_apology")

\* the provider returned no path and the one failure message was sent
C27_Witness ==
    /\ WslProviderFailed
    /\ path = None
    /\ Len(Sends(trace)) = 2
    /\ Sends(trace)[2].ok
    /\ Sends(trace)[2].body = "Falha ao capturar screenshot WSL. Verifique"

(***************************************************************************)
(* get_tails applied to log directories and line counts                    *)
(***************************************************************************)
\* the largest of the small line counts requested
MaxTailLines == 3

TailLineCounts == (0..MaxTailLines) \cup {TailLines}

\* a file of 60 lines of 200 characters, above the small-file threshold
LargeData ==
    [i \in 1..(60 * 2 * AvgLineLen) |-> IF i % (2 * AvgLineLen) = 0 THEN "\n" ELSE "x"]

TailData ==
    {<<>>, SampleData, <<"a", "\n", "b", "\n", "c">>, <<"a", "\n", "\n", "b", "\n">>,
     LargeData}

\* one log file in the first monitored directory
TailFileSystems ==
    {<<DirWith(<<LogFile(5, 1, data, readable, vanishes)>>),
       DirMissing, DirNoLogs, DirEmpty>> :
        data \in TailData, readable \in BOOLEAN, vanishes \in BOOLEAN}

InitTail ==
    /\ chat_id = <<"7">>
    /\ triggers = <<>>
    /\ pc = "idle"
    /\ upd = NoUpdate
    /\ trace = <<>>
    /\ disk = {}
    /\ path = None
    /\ created = {}
    /\ messages = <<>>
    /\ idx = 0
    /\ exc = ""
    /\ outcome = "none"
    /\ fs \in TailFileSystems
    /\ fmtResults = <<>>
    /\ fmtMax = DefaultMaxMessageLength
    /\ fmtOut = <<>>
    /\ fmtDone = FALSE
    /\ run = "polling"
    /\ signal = None
    /\ lifecycle = <<>>
    /\ inv = NoInvocations
    /\ tmpfiles = NoTmpFiles
    /\ clock = 0
    /\ tailLines \in TailLineCounts
    /\ tails = <<>>

Tails ==
    /\ tails = <<>>
    /\ tails' = get_tails(fs, tailLines)
    /\ UNCHANGED <<tailLines, routerVars, fmtVars, runVars, shotVars>>

NextTail == Tails

SpecTail == InitTail /\ [][NextTail]_vars

\* the log file of the first directory
TailFile == fs[1].files[1]

\* r, but for a final newline, is the text of the file from the start of
\* one of its lines to its end, or is empty
IsLineSuffix(r, data) ==
    \/ r = <<>>
    \/ \E p \in LineStarts(data) :
           JoinedLines(SubSeq(data, p, Len(data))) = JoinedLines(r)

\* C28 as claimed: the content of the success record of a readable file
\* has at most tailLines lines, line_count says so, and the content is
\* made of the last lines of the file.
C28_TailIsLastLines ==
    (tails # <<>> /\ TailFile.readable /\ tails[1].status = "success") =>
        /\ CountLines(tails[1].content) <= tailLines
        /\ tails[1].line_count <= tailLines
        /\ IsLineSuffix(tails[1].content, TailFile.data)

\* C29 as claimed: a file that cannot be opened or read gives a record of
\* status 'error', never one of status 'success'.
C29_UnreadableFileGivesErrorRecord ==
    (tails # <<>> /\ ~TailFile.readable) => tails[1].status = "error"

\* the text after "Tamanho: " in the message of success record i, up to the
\* end of its line
SizeField(i) ==
    LET r     == fmtResults[i]
        from  == 2 + Len(r.directory) + 3 + Len(r.file_name) + 2
                 + 14 + Len(r.modified_time) + 1 + 11 + 1
        stops == {k \in from..Len(fmtOut[i]) : fmtOut[i][k] = "\n"}
        to    == CHOOSE k \in stops : \A j \in stops : k <= j
    IN  SubSeq(fmtOut[i], from, to - 1)

\* C30: the size written in the message of a success record is the exact
\* byte count with unit B below 1024, and has the unit KB from 1024 to
\* below 1024^2, MB from 1024^2 to below 1024^3, GB from 1024^3.
C30_FileSizeUnitThresholds ==
    fmtDone =>
        \A i \in 1..Len(fmtResults) :
            fmtResults[i].status = "success" =>
                LET size  == fmtResults[i].file_size
                    field == SizeField(i)
                IN  /\ size < 1024 => field = Digits(size) \o <<" ", "B">>
                    /\ (1024 <= size /\ size < 1024 * 1024) =>
                           EndsWith(field, <<" ", "K", "B">>)
                    /\ (1024 * 1024 <= size /\ size < 1024 * 1024 * 1024) =>
                           EndsWith(field, <<" ", "M", "B">>)
                    /\ 1024 * 1024 * 1024 <= size =>
                           EndsWith(field, <<" ", "G", "B">>)

\* a file of exactly 1024^3 bytes was formatted as 1.0 GB
C30_Witness ==
    /\ fmtDone
    /\ Len(fmtResults) = 1
    /\ fmtResults[1].status = "success"
    /\ fmtResults[1].file_size = 1024 * 1024 * 1024
    /\ SizeField(1) = <<"1", ".", "0", " ", "G", "B">>

====
